---- MODULE Spec2Model ----
(***************************************************************************)
(* The perf collapser of inferno (src/src/collapse/perf.rs): the Folder    *)
(* state machine that turns `perf script` text into folded stacks, and     *)
(* the driver that feeds it.                                               *)
(*                                                                         *)
(* Text is modelled as sequences of one-character strings, so that the     *)
(* parsing code (event_line_parts, stack_line_parts, tidy_generic, ...)    *)
(* is computed character by character as the Rust code computes it.        *)
(* A line is the text that read_line returns without its final "\n"; the   *)
(* code removes that terminator with trim_end before it looks at the line. *)
(* Option<T> is <<>> for None and <<x>> for Some(x).                       *)
(***************************************************************************)
EXTENDS Integers, Sequences, FiniteSets, Bags, TLC

VARIABLES
    folder,          \* the Folder (perf.rs:92-127)
    occurrences,     \* the Occurrences map of the current collapse call
    input,           \* the lines of the stream given to the current collapse call
    reader,          \* the lines of `input` that have not been read yet
    pc,              \* position of the thread that called collapse
    buf,             \* the job being assembled by the multi-threaded driver
    nstacks,         \* stack terminators seen in `buf`
    jobs,            \* jobs sent to the worker pool and not yet processed
    hist,            \* history of the run (what was read), used by the properties
    runs,            \* outcomes of the collapse calls that have finished
    overflow_checks  \* whether the build panics on integer overflow (debug) or wraps

vars == <<folder, occurrences, input, reader, pc, buf, nstacks, jobs, hist, runs,
          overflow_checks>>

(***************************************************************************)
(* Bounds of the model                                                     *)
(***************************************************************************)
MaxLines == 4

MaxReplayLines == 3

MaxNamePieces == 3

MaxDetectLines == 4

MaxThreads == 2

MaxSkipLines == 2

MaxInlineLines == 2

MaxBoundaryLen == 3

(***************************************************************************)
(* Text helpers: the std::str operations the code uses                     *)
(***************************************************************************)
None == <<>>

Some(x) == <<x>>

\* characters outside ASCII are written by their code point: EM SPACE and
\* NO-BREAK SPACE (both White_Space) and LATIN SMALL LETTER A WITH GRAVE
EmSpace == "U+2003"

NoBreakSpace == "U+00A0"

AGrave == "U+00E0"

\* char::is_whitespace on the characters of the model's alphabet
IsWhitespace(c) == c \in {" ", "\t", EmSpace, NoBreakSpace}

\* the UTF-8 encoding of a character; a byte below 0x80 is written as its
\* ASCII character, another byte by its value
UTF8(c) ==
    CASE c = EmSpace      -> <<"0xE2", "0x80", "0x83">>
      [] c = NoBreakSpace -> <<"0xC2", "0xA0">>
      [] c = AGrave       -> <<"0xC3", "0xA0">>
      [] OTHER            -> <<c>>

\* str::as_bytes
RECURSIVE as_bytes(_)
as_bytes(s) == IF s = <<>> THEN <<>> ELSE UTF8(Head(s)) \o as_bytes(Tail(s))

\* `b as char`: the character whose code point is the value of the byte
ByteAsChar(b) ==
    CASE b = "0xA0" -> NoBreakSpace
      [] b = "0x80" -> "U+0080"
      [] b = "0x83" -> "U+0083"
      [] b = "0xC2" -> "U+00C2"
      [] b = "0xC3" -> "U+00C3"
      [] b = "0xE2" -> "U+00E2"
      [] OTHER      -> b

IsAsciiDigit(c) == c \in {"0", "1", "2", "3", "4", "5", "6", "7", "8", "9"}

IsAsciiHexDigit(c) == IsAsciiDigit(c) \/ c \in {"a", "b", "c", "d", "e", "f"}

\* &s[a..b] with 0-based byte offsets
Slice(s, a, b) == SubSeq(s, a + 1, b)

\* &s[a..]
SliceFrom(s, a) == SubSeq(s, a + 1, Len(s))

StartsWith(s, p) == Len(s) >= Len(p) /\ SubSeq(s, 1, Len(p)) = p

EndsWith(s, p) == Len(s) >= Len(p) /\ SubSeq(s, Len(s) - Len(p) + 1, Len(s)) = p

RECURSIVE TrimEnd(_)
TrimEnd(s) ==
    IF s = <<>> THEN s
    ELSE IF IsWhitespace(s[Len(s)]) THEN TrimEnd(SubSeq(s, 1, Len(s) - 1))
    ELSE s

RECURSIVE TrimStart(_)
TrimStart(s) ==
    IF s = <<>> THEN s
    ELSE IF IsWhitespace(s[1]) THEN TrimStart(Tail(s))
    ELSE s

Trim(s) == TrimStart(TrimEnd(s))

\* str::find(pat): 0-based offset of the first match, as an Option
RECURSIVE FindFrom(_, _, _)
FindFrom(s, p, i) ==
    IF i + Len(p) > Len(s) THEN None
    ELSE IF SubSeq(s, i + 1, i + Len(p)) = p THEN Some(i)
    ELSE FindFrom(s, p, i + 1)

Find(s, p) == FindFrom(s, p, 0)

\* str::rfind(pat): 0-based offset of the last match, as an Option
RECURSIVE RFindFrom(_, _, _)
RFindFrom(s, p, i) ==
    IF i < 0 THEN None
    ELSE IF SubSeq(s, i + 1, i + Len(p)) = p THEN Some(i)
    ELSE RFindFrom(s, p, i - 1)

RFind(s, p) == RFindFrom(s, p, Len(s) - Len(p))

\* str::replace(from, to) for one-character patterns
ReplaceChar(s, from, to) == [i \in 1..Len(s) |-> IF s[i] = from THEN to ELSE s[i]]

\* str::split(pat): the pieces, in order (always at least one)
RECURSIVE Split(_, _)
Split(s, p) ==
    LET at == Find(s, p) IN
    IF at = None THEN <<s>>
    ELSE <<Slice(s, 0, at[1])>> \o Split(SliceFrom(s, at[1] + Len(p)), p)

(***************************************************************************)
(* Options and Folder                                                      *)
(***************************************************************************)
\* Options::default(), with the thread count left to the caller
DefaultOptions(n) ==
    [annotate_jit |-> FALSE, annotate_kernel |-> FALSE, demangle |-> FALSE,
     event_filter |-> None, include_addrs |-> FALSE, include_pid |-> FALSE,
     include_tid |-> FALSE, nthreads |-> n]

\* common::DEFAULT_NSTACKS_PER_JOB (defined outside perf.rs); the runs of the
\* model set nstacks_per_job themselves, as tests::fuzz_collapse_perf does.
DEFAULT_NSTACKS_PER_JOB == 100

\* impl From<Options> for Folder
FolderFrom(opt) ==
    LET o1 == IF opt.nthreads = 0 THEN [opt EXCEPT !.nthreads = 1] ELSE opt
        o2 == [o1 EXCEPT !.include_pid = o1.include_pid \/ o1.include_tid]
    IN  [cache_line |-> <<>>,
         event_filter |-> o2.event_filter,
         in_event |-> FALSE,
         nstacks_per_job |-> DEFAULT_NSTACKS_PER_JOB,
         pname |-> <<>>,
         skip_stack |-> FALSE,
         stack |-> <<>>,
         opt |-> o2]

\* a variant of clone_and_reset_stack_context that gives the clone the filter of
\* the options instead of the filter of the Folder
clone_and_reset_stack_context_filter_of_options(f) ==
    [cache_line |-> f.cache_line,
     event_filter |-> f.opt.event_filter,
     in_event |-> FALSE,
     nstacks_per_job |-> f.nstacks_per_job,
     pname |-> <<>>,
     skip_stack |-> FALSE,
     stack |-> <<>>,
     opt |-> f.opt]

\* a variant of clone_and_reset_stack_context that copies the process name
clone_and_reset_stack_context_keeps_pname(f) ==
    [cache_line |-> f.cache_line,
     event_filter |-> f.event_filter,
     in_event |-> FALSE,
     nstacks_per_job |-> f.nstacks_per_job,
     pname |-> f.pname,
     skip_stack |-> FALSE,
     stack |-> <<>>,
     opt |-> f.opt]

\* Folder::clone_and_reset_stack_context
clone_and_reset_stack_context(f) ==
    [cache_line |-> f.cache_line,
     event_filter |-> f.event_filter,
     in_event |-> FALSE,
     nstacks_per_job |-> f.nstacks_per_job,
     pname |-> <<>>,
     skip_stack |-> FALSE,
     stack |-> <<>>,
     opt |-> f.opt]

\* Folder::nthreads
nthreads(f) == f.opt.nthreads

\* Folder::set_nthreads
set_nthreads(f, n) == [f EXCEPT !.opt.nthreads = n]

\* Folder::would_end_stack, on the bytes of a line (its "\n" is whitespace)
would_end_stack(line) ==
    LET bytes == as_bytes(line) IN
    \A i \in 1..Len(bytes) : IsWhitespace(ByteAsChar(bytes[i]))

(***************************************************************************)
(* Event lines                                                             *)
(***************************************************************************)
\* the loop of Folder::event_line_parts; idx is the 0-based offset of the
\* character looked at
RECURSIVE event_line_loop(_, _, _, _, _, _)
event_line_loop(line, idx, word_start, all_digits, last_was_space, contains_slash_at) ==
    IF idx >= Len(line) THEN None
    ELSE LET c == line[idx + 1] IN
        IF c = " " THEN
            IF all_digits /\ ~last_was_space THEN
                LET pid == IF contains_slash_at # None
                           THEN Slice(line, word_start, contains_slash_at[1])
                           ELSE <<"?">>
                    tid == IF contains_slash_at # None
                           THEN Slice(line, contains_slash_at[1] + 1, idx)
                           ELSE Slice(line, word_start, idx)
                    comm == Trim(Slice(line, 0, word_start - 1))
                IN  Some([comm |-> comm, pid |-> pid, tid |-> tid])
            ELSE event_line_loop(line, idx + 1, idx + 1, TRUE, TRUE, contains_slash_at)
        ELSE IF c = "/" THEN
            event_line_loop(line, idx + 1, word_start, all_digits, FALSE,
                            IF all_digits THEN Some(idx) ELSE contains_slash_at)
        ELSE IF IsAsciiDigit(c) THEN
            event_line_loop(line, idx + 1, word_start, all_digits, FALSE, contains_slash_at)
        ELSE event_line_loop(line, idx + 1, word_start, FALSE, FALSE, None)

\* Folder::event_line_parts
event_line_parts(line) == event_line_loop(line, 0, 0, FALSE, FALSE, None)

\* line.rsplitn(2, ' ').next(): the text after the last space (the whole line
\* when it has no space)
LastWord(line) ==
    LET at == RFind(line, <<" ">>) IN
    IF at = None THEN line ELSE SliceFrom(line, at[1] + 1)

\* the event type of a header: Some(event) when the last word ends with ':'
EventType(line) ==
    LET event == LastWord(line) IN
    IF EndsWith(event, <<":">>) THEN Some(Slice(event, 0, Len(event) - 1)) ELSE None

\* a variant of Identity that tests include_pid before include_tid
Identity_pid_first(opt, parts) ==
    LET comm == ReplaceChar(parts.comm, " ", "_") IN
    IF opt.include_pid THEN comm \o <<"-">> \o parts.pid
    ELSE IF opt.include_tid THEN comm \o <<"-">> \o parts.pid \o <<"/">> \o parts.tid
    ELSE comm

\* the process identity of an accepted header (perf.rs:372-382)
Identity(opt, parts) ==
    LET comm == ReplaceChar(parts.comm, " ", "_") IN
    IF opt.include_tid THEN comm \o <<"-">> \o parts.pid \o <<"/">> \o parts.tid
    ELSE IF opt.include_pid THEN comm \o <<"-">> \o parts.pid
    ELSE comm

\* a variant of on_event_line that takes the event type of every header as
\* the new filter instead of skipping the events of another type
on_event_line_readopts(f, line) ==
    LET parts == event_line_parts(line)
        event == EventType(line)
    IN  IF parts = None THEN [f EXCEPT !.in_event = FALSE]
        ELSE [f EXCEPT !.in_event = TRUE,
                       !.event_filter = IF event # None THEN Some(event[1]) ELSE @,
                       !.pname = Identity(f.opt, parts[1])]

\* a variant of on_event_line that leaves in_event set (as set on entry) when
\* the line is not a header
on_event_line_weird_in_event(f, line) ==
    LET parts == event_line_parts(line)
        event == EventType(line)
    IN  IF parts = None THEN [f EXCEPT !.in_event = TRUE]
        ELSE IF event # None /\ f.event_filter # None /\ event[1] # f.event_filter[1]
        THEN [f EXCEPT !.in_event = TRUE, !.skip_stack = TRUE]
        ELSE [f EXCEPT !.in_event = TRUE,
                       !.event_filter = IF event # None /\ f.event_filter = None
                                        THEN Some(event[1]) ELSE @,
                       !.pname = Identity(f.opt, parts[1])]

\* Folder::on_event_line
on_event_line(f, line) ==
    LET parts == event_line_parts(line)
        event == EventType(line)
    IN  IF parts = None THEN [f EXCEPT !.in_event = FALSE]
        ELSE IF event # None /\ f.event_filter # None /\ event[1] # f.event_filter[1]
        THEN [f EXCEPT !.in_event = TRUE, !.skip_stack = TRUE]
        ELSE [f EXCEPT !.in_event = TRUE,
                       !.event_filter = IF event # None /\ f.event_filter = None
                                        THEN Some(event[1]) ELSE @,
                       !.pname = Identity(f.opt, parts[1])]

(***************************************************************************)
(* Stack lines and the symbol normalizer                                   *)
(***************************************************************************)
\* Folder::stack_line_parts
stack_line_parts(line) ==
    LET l1    == TrimStart(line)
        sp1   == Find(l1, <<" ">>)
    IN  IF sp1 = None THEN None
        ELSE
        LET pc_   == TrimEnd(Slice(l1, 0, sp1[1]))
            rest  == SliceFrom(l1, sp1[1] + 1)
            sp2   == RFind(rest, <<" ">>)
            module == IF sp2 = None THEN rest ELSE SliceFrom(rest, sp2[1] + 1)
        IN  IF ~StartsWith(module, <<"(">>) \/ ~EndsWith(module, <<")">>) THEN None
            ELSE IF sp2 = None THEN None
            ELSE
            LET t == Trim(Slice(rest, 0, sp2[1])) IN
            Some([pc |-> pc_,
                  rawfunc |-> IF t = <<>> THEN <<" ">> ELSE t,
                  module |-> Slice(module, 1, Len(module) - 1)])

Unknown == <<"[", "u", "n", "k", "n", "o", "w", "n", "]">>

\* a variant of with_module_fallback that cuts the module at its first '/'
with_module_fallback_first_slash(module, func, pc_, include_addrs) ==
    IF func # Unknown THEN func
    ELSE IF module = Unknown /\ ~include_addrs THEN func
    ELSE
    LET name == IF module = Unknown THEN <<"u", "n", "k", "n", "o", "w", "n">>
                ELSE LET at == Find(module, <<"/">>) IN
                     SliceFrom(module, IF at = None THEN 0 ELSE at[1] + 1)
    IN  IF include_addrs THEN <<"[">> \o name \o <<" ", "<">> \o pc_ \o <<">", "]">>
        ELSE <<"[">> \o name \o <<"]">>

\* with_module_fallback
with_module_fallback(module, func, pc_, include_addrs) ==
    IF func # Unknown THEN func
    ELSE IF module = Unknown /\ ~include_addrs THEN func
    ELSE
    LET name == IF module = Unknown THEN <<"u", "n", "k", "n", "o", "w", "n">>
                ELSE LET at == RFind(module, <<"/">>) IN
                     SliceFrom(module, IF at = None THEN 0 ELSE at[1] + 1)
    IN  IF include_addrs THEN <<"[">> \o name \o <<" ", "<">> \o pc_ \o <<">", "]">>
        ELSE <<"[">> \o name \o <<"]">>

AnonymousNamespace ==
    <<"a", "n", "o", "n", "y", "m", "o", "u", "s", " ",
      "n", "a", "m", "e", "s", "p", "a", "c", "e", ")">>

\* a variant of tidy_generic that looks for the last '(' of the name
tidy_generic_last_paren(func0, checks) ==
    LET func == ReplaceChar(func0, ";", ":")
        first_paren == RFind(func, <<"(">>)
    IN  IF first_paren = None THEN [panic |-> FALSE, val |-> func]
        ELSE IF StartsWith(SliceFrom(func, first_paren[1]), AnonymousNamespace)
        THEN [panic |-> FALSE, val |-> func]
        ELSE IF first_paren[1] = 0 /\ checks THEN [panic |-> TRUE, val |-> func]
        ELSE
        LET is_go == first_paren[1] > 0 /\ func[first_paren[1]] = "." IN
        [panic |-> FALSE,
         val |-> IF is_go THEN func ELSE Slice(func, 0, first_paren[1])]

\* tidy_generic.  The result is [panic, val]: `first_paren - 1` underflows when
\* the name starts with '(', which panics in a build with overflow checks and
\* wraps to usize::MAX otherwise (then func.get(..) is None).
tidy_generic(func0, checks) ==
    LET func == ReplaceChar(func0, ";", ":")
        first_paren == Find(func, <<"(">>)
    IN  IF first_paren = None THEN [panic |-> FALSE, val |-> func]
        ELSE IF StartsWith(SliceFrom(func, first_paren[1]), AnonymousNamespace)
        THEN [panic |-> FALSE, val |-> func]
        ELSE IF first_paren[1] = 0 /\ checks THEN [panic |-> TRUE, val |-> func]
        ELSE
        LET is_go == first_paren[1] > 0 /\ func[first_paren[1]] = "." IN
        [panic |-> FALSE,
         val |-> IF is_go THEN func ELSE Slice(func, 0, first_paren[1])]

\* tidy_java
tidy_java(func) ==
    IF StartsWith(func, <<"L">>) /\ Find(func, <<"/">>) # None THEN Tail(func) ELSE func

\* symbolic_demangle::demangle, on names that are not mangled (the only names
\* of the model): such a name is returned as it is
demangle(rawfunc) == rawfunc

\* common::fix_partially_demangled_rust_symbol, on names without a trailing
\* Rust hash (the only names of the model): such a name is returned as it is
fix_partially_demangled_rust_symbol(rawfunc) == rawfunc

JavaName == <<"j", "a", "v", "a">>

\* a variant of Annotate that marks kernel frames whatever annotate_kernel says
Annotate_kernel_ungated(f, module, func) ==
    IF f.cache_line # <<>> THEN func \o <<"_", "[", "i", "]">>
    ELSE IF (StartsWith(module, <<"[">>)
                \/ EndsWith(module, <<"v", "m", "l", "i", "n", "u", "x">>))
            /\ module # Unknown
    THEN func \o <<"_", "[", "k", "]">>
    ELSE IF f.opt.annotate_jit
            /\ StartsWith(module, <<"/", "t", "m", "p", "/", "p", "e", "r", "f", "-">>)
            /\ EndsWith(module, <<".", "m", "a", "p">>)
    THEN func \o <<"_", "[", "j", "]">>
    ELSE func

\* the annotation of one piece (perf.rs:479-491)
Annotate(f, module, func) ==
    IF f.cache_line # <<>> THEN func \o <<"_", "[", "i", "]">>
    ELSE IF f.opt.annotate_kernel
            /\ (StartsWith(module, <<"[">>)
                \/ EndsWith(module, <<"v", "m", "l", "i", "n", "u", "x">>))
            /\ module # Unknown
    THEN func \o <<"_", "[", "k", "]">>
    ELSE IF f.opt.annotate_jit
            /\ StartsWith(module, <<"/", "t", "m", "p", "/", "p", "e", "r", "f", "-">>)
            /\ EndsWith(module, <<".", "m", "a", "p">>)
    THEN func \o <<"_", "[", "j", "]">>
    ELSE func

\* the loop over rawfunc.split("->") of Folder::on_stack_line (perf.rs:457-494):
\* every piece is normalized and pushed on cache_line
RECURSIVE push_funcs(_, _, _, _, _)
push_funcs(f, pieces, module, pc_, checks) ==
    IF pieces = <<>> THEN [f |-> f, panic |-> FALSE]
    ELSE
    LET func1 == with_module_fallback(module, Head(pieces), pc_, f.opt.include_addrs)
        tidy  == tidy_generic(func1, checks)
    IN  IF tidy.panic THEN [f |-> f, panic |-> TRUE]
        ELSE
        LET func2 == IF f.pname = JavaName THEN tidy_java(tidy.val) ELSE tidy.val
            func3 == Annotate(f, module, func2)
        IN  push_funcs([f EXCEPT !.cache_line = Append(@, func3)],
                       Tail(pieces), module, pc_, checks)

\* a variant of drain_cache_line that appends the frames of the line to the
\* back of the stack
drain_cache_line_back(f) == [f EXCEPT !.stack = @ \o f.cache_line, !.cache_line = <<>>]

\* while let Some(func) = self.cache_line.pop() { self.stack.push_front(func) }
RECURSIVE drain_cache_line(_)
drain_cache_line(f) ==
    IF f.cache_line = <<>> THEN f
    ELSE drain_cache_line(
            [f EXCEPT !.stack = <<f.cache_line[Len(f.cache_line)]>> \o @,
                      !.cache_line = SubSeq(@, 1, Len(@) - 1)])

\* rawfunc without a symbol offset "+0x<hex>" (perf.rs:432-438)
StripOffset(rawfunc) ==
    LET offset == RFind(rawfunc, <<"+", "0", "x">>) IN
    IF offset = None THEN rawfunc
    ELSE LET end == SliceFrom(rawfunc, offset[1] + 3) IN
         IF \A i \in 1..Len(end) : IsAsciiHexDigit(end[i])
         THEN Slice(rawfunc, 0, offset[1]) ELSE rawfunc

\* the part of Folder::on_stack_line that parses the line and pushes its
\* normalized pieces on cache_line (perf.rs:430-494); the result is [f, panic]
line_funcs(f, line, checks) ==
    LET parts == stack_line_parts(line) IN
    IF parts = None THEN [f |-> f, panic |-> FALSE]
    ELSE
    LET rawfunc == StripOffset(parts[1].rawfunc) IN
    IF StartsWith(rawfunc, <<"(">>) THEN [f |-> f, panic |-> FALSE]
    ELSE
    LET name == IF f.opt.demangle THEN demangle(rawfunc)
                ELSE fix_partially_demangled_rust_symbol(rawfunc)
    IN  push_funcs(f, Split(name, <<"-", ">">>), parts[1].module, parts[1].pc, checks)

\* a variant of on_stack_line that ends the event at a line that is not a
\* frame line
on_stack_line_weird_ends_event(f, line, checks) ==
    IF f.skip_stack THEN [f |-> f, panic |-> FALSE]
    ELSE IF stack_line_parts(line) = None
    THEN [f |-> [f EXCEPT !.in_event = FALSE], panic |-> FALSE]
    ELSE
    LET r == line_funcs(f, line, checks) IN
    IF r.panic THEN r ELSE [f |-> drain_cache_line(r.f), panic |-> FALSE]

\* Folder::on_stack_line; the result is [f, panic]
on_stack_line(f, line, checks) ==
    IF f.skip_stack THEN [f |-> f, panic |-> FALSE]
    ELSE
    LET r == line_funcs(f, line, checks) IN
    IF r.panic THEN r ELSE [f |-> drain_cache_line(r.f), panic |-> FALSE]

(***************************************************************************)
(* Occurrences and the end of an event                                     *)
(***************************************************************************)
\* Occurrences::insert_or_add
insert_or_add(occ, key, n) ==
    IF key \in DOMAIN occ THEN [occ EXCEPT ![key] = @ + n] ELSE occ @@ (key :> n)

\* the count of a stack string in an occurrence map (0 when absent)
Count(occ, key) == IF key \in DOMAIN occ THEN occ[key] ELSE 0

\* the string built by Folder::after_event (perf.rs:508-518)
RECURSIVE JoinStack(_, _)
JoinStack(str, stack) ==
    IF stack = <<>> THEN str
    ELSE JoinStack(str \o <<";">> \o Head(stack), Tail(stack))

\* a variant of after_event that does not look at skip_stack
after_event_counts_skipped(f, occ) ==
    [f   |-> [f EXCEPT !.in_event = FALSE, !.skip_stack = FALSE, !.stack = <<>>],
     occ |-> insert_or_add(occ, JoinStack(f.pname, f.stack), 1)]

\* a variant of after_event that leaves skip_stack as it is
after_event_keeps_skip(f, occ) ==
    [f   |-> [f EXCEPT !.in_event = FALSE, !.stack = <<>>],
     occ |-> IF ~f.skip_stack THEN insert_or_add(occ, JoinStack(f.pname, f.stack), 1)
             ELSE occ]

\* Folder::after_event; the result is [f, occ]
after_event(f, occ) ==
    [f   |-> [f EXCEPT !.in_event = FALSE, !.skip_stack = FALSE, !.stack = <<>>],
     occ |-> IF ~f.skip_stack THEN insert_or_add(occ, JoinStack(f.pname, f.stack), 1)
             ELSE occ]

(***************************************************************************)
(* Folder::process_single_stack and Folder::collapse_single_threaded       *)
(***************************************************************************)
\* a variant of process_line that tests the line for emptiness before trim_end
process_line_no_trim(f, occ, line, checks) ==
    IF StartsWith(line, <<"#">>) THEN [f |-> f, occ |-> occ, ret |-> "continue"]
    ELSE IF line = <<>> THEN
        LET r == after_event(f, occ) IN [f |-> r.f, occ |-> r.occ, ret |-> "return"]
    ELSE IF f.in_event THEN
        LET r == on_stack_line(f, TrimEnd(line), checks) IN
        [f |-> r.f, occ |-> occ, ret |-> IF r.panic THEN "panic" ELSE "continue"]
    ELSE [f |-> on_event_line(f, TrimEnd(line)), occ |-> occ, ret |-> "continue"]

\* one iteration of the loop of process_single_stack on a line that was read;
\* ret is "continue" (next iteration), "return" (Ok(false)) or "panic"
process_line(f, occ, line, checks) ==
    IF StartsWith(line, <<"#">>) THEN [f |-> f, occ |-> occ, ret |-> "continue"]
    ELSE IF TrimEnd(line) = <<>> THEN
        LET r == after_event(f, occ) IN [f |-> r.f, occ |-> r.occ, ret |-> "return"]
    ELSE IF f.in_event THEN
        LET r == on_stack_line(f, TrimEnd(line), checks) IN
        [f |-> r.f, occ |-> occ, ret |-> IF r.panic THEN "panic" ELSE "continue"]
    ELSE [f |-> on_event_line(f, TrimEnd(line)), occ |-> occ, ret |-> "continue"]

\* the end of data in process_single_stack (read_line returned 0): Ok(true)
end_of_data(f, occ) == [f |-> f, occ |-> occ]

\* "Reset state..." at the end of collapse_single_threaded (perf.rs:190-193)
reset_state(f) == [f EXCEPT !.in_event = FALSE, !.skip_stack = FALSE, !.stack = <<>>]

\* Folder::collapse_single_threaded on a reader that holds `lines` and then
\* ends; the result is [f, occ, panic].  (The result of each line is bound
\* through a one-element set, which makes TLC compute it once.)
RECURSIVE collapse_single_threaded(_, _, _, _)
collapse_single_threaded(f, occ, lines, checks) ==
    IF lines = <<>> THEN
        LET r == end_of_data(f, occ) IN
        [f |-> reset_state(r.f), occ |-> r.occ, panic |-> FALSE]
    ELSE
    CHOOSE out \in
        {IF r.ret = "panic" THEN [f |-> r.f, occ |-> r.occ, panic |-> TRUE]
         ELSE collapse_single_threaded(r.f, r.occ, Tail(lines), checks) :
            r \in {process_line(f, occ, Head(lines), checks)}} : TRUE

(***************************************************************************)
(* The lines of the model's inputs                                         *)
(***************************************************************************)
\* "a b 1/2 c:"   comm "a b", pid 1, tid 2, event type c
HeaderC == <<"a", " ", "b", " ", "1", "/", "2", " ", "c", ":">>

\* "java 7 i:"    comm "java", tid 7, event type i
HeaderI == <<"j", "a", "v", "a", " ", "7", " ", "i", ":">>

\* "a 1 x"        a header without an event type
HeaderNoType == <<"a", " ", "1", " ", "x">>

\* "w"            neither an event line nor a stack line
Weird == <<"w">>

\* " e f (m)"     a frame line (address e, function f, module m)
Frame1 == <<" ", "e", " ", "f", " ", "(", "m", ")">>

\* " e g->h (m)"  two frames on one line
Frame2 == <<" ", "e", " ", "g", "-", ">", "h", " ", "(", "m", ")">>

Blank == <<>>

Comment == <<"#">>

Corpus == {HeaderC, HeaderI, HeaderNoType, Weird, Frame1, Frame2, Blank, Comment}

\* every sequence of at most n lines of the set `lines`
Inputs(lines, n) == UNION {[1..k -> lines] : k \in 0..n}

(***************************************************************************)
(* History of a run: what the lines read so far amount to, by the grammar  *)
(* of the format (header, frame lines, terminating blank line)             *)
(***************************************************************************)
\* the history at the start of a collapse call on a Folder built from `options`
NewHist(options) ==
    [options |-> options,   \* the Options the Folder was built from
     phase   |-> "idle",    \* "idle", "event" (sampled) or "excluded" (filtered out)
     parts   |-> None,      \* the parts of the header of the current event
     lines   |-> <<>>,      \* per frame line read in this event: its frames, as written
     sampled |-> EmptyBag,  \* stack string -> number of sampled events closed by a blank line
     adopted |-> FALSE,     \* a header of this run has set the event filter
     nexcluded |-> 0,       \* number of excluded events closed by a blank line
     at_eof  |-> None]      \* the stack string pending when the end of data was first read

RECURSIVE Flatten(_)
Flatten(ss) == IF ss = <<>> THEN <<>> ELSE Head(ss) \o Flatten(Tail(ss))

Reverse(ss) == [i \in 1..Len(ss) |-> ss[Len(ss) + 1 - i]]

\* identity, then the frames root-first, each preceded by ';'
RECURSIVE StackString(_, _)
StackString(identity, frames) ==
    IF frames = <<>> THEN identity
    ELSE StackString(identity \o <<";">> \o Head(frames), Tail(frames))

\* the stack string of the event the history is in
PendingString(h, f) ==
    StackString(Identity(f.opt, h.parts[1]), Flatten(Reverse(h.lines)))

\* the history after `line` was read by a parser whose Folder is f
HistLine(h, f, line, checks) ==
    IF StartsWith(line, <<"#">>) THEN h
    ELSE IF TrimEnd(line) = <<>> THEN
        [h EXCEPT !.phase = "idle", !.parts = None, !.lines = <<>>,
                  !.sampled = IF h.phase = "event"
                              THEN insert_or_add(@, PendingString(h, f), 1) ELSE @,
                  !.nexcluded = IF h.phase = "excluded" THEN @ + 1 ELSE @]
    ELSE IF h.phase = "idle" THEN
        LET parts == event_line_parts(TrimEnd(line))
            type  == EventType(TrimEnd(line))
        IN  IF parts = None THEN h
            ELSE IF type # None /\ f.event_filter # None /\ type[1] # f.event_filter[1]
            THEN [h EXCEPT !.phase = "excluded", !.parts = parts]
            ELSE [h EXCEPT !.phase = "event", !.parts = parts,
                           !.adopted = @ \/ (type # None /\ f.event_filter = None)]
    ELSE IF h.phase = "event" THEN
        LET scratch == [f EXCEPT !.pname = Identity(f.opt, h.parts[1]),
                                 !.cache_line = <<>>]
        IN  [h EXCEPT !.lines = Append(@, line_funcs(scratch, TrimEnd(line), checks).f.cache_line)]
    ELSE h

\* the history when the end of data is read
HistEnd(h, f) ==
    IF h.at_eof = None /\ h.phase = "event"
    THEN [h EXCEPT !.at_eof = Some(PendingString(h, f))] ELSE h

(***************************************************************************)
(* The collapse call and its steps                                         *)
(***************************************************************************)
\* where Collapse::collapse goes after pre_process: one thread parses the
\* stream itself, several threads get jobs
AfterPreProcess(f) == IF f.opt.nthreads > 1 THEN "dispatch" ELSE "single"

\* the state at the start of Collapse::collapse(folder, lines, writer)
StartCollapse(f, options, lines) ==
    /\ folder = f
    /\ occurrences = EmptyBag
    /\ input = lines
    /\ reader = lines
    /\ pc = "pre_process"
    /\ buf = <<>>
    /\ nstacks = 0
    /\ jobs = <<>>
    /\ hist = NewHist(options)
    /\ runs = <<>>

\* Folder::pre_process up to its call of process_single_stack
PreProcess ==
    /\ pc = "pre_process"
    /\ pc' = IF folder.event_filter # None THEN AfterPreProcess(folder) ELSE "first_stack"
    /\ UNCHANGED <<folder, occurrences, input, reader, buf, nstacks, jobs, hist, runs,
                   overflow_checks>>

\* pre_process after process_single_stack returned: assert!(event_filter.is_some())
AssertFilter(f) == IF f.event_filter = None THEN "panicked" ELSE AfterPreProcess(f)

\* a variant of ProcessLine that looks at an empty line without taking it from
\* the reader
ProcessLine_keeps_empty_line ==
    /\ pc \in {"first_stack", "single"}
    /\ reader # <<>>
    /\ LET r == process_line(folder, occurrences, Head(reader), overflow_checks) IN
        /\ folder' = r.f
        /\ occurrences' = r.occ
        /\ pc' = IF r.ret = "panic" THEN "panicked"
                 ELSE IF r.ret = "return" /\ pc = "first_stack" THEN AssertFilter(r.f)
                 ELSE pc
    /\ reader' = IF TrimEnd(Head(reader)) = <<>> THEN reader ELSE Tail(reader)
    /\ hist' = HistLine(hist, folder, Head(reader), overflow_checks)
    /\ UNCHANGED <<input, buf, nstacks, jobs, runs, overflow_checks>>

\* one iteration of the loop of process_single_stack that reads a line, in
\* pre_process ("first_stack") or in collapse_single_threaded ("single")
ProcessLine ==
    /\ pc \in {"first_stack", "single"}
    /\ reader # <<>>
    /\ LET r == process_line(folder, occurrences, Head(reader), overflow_checks) IN
        /\ folder' = r.f
        /\ occurrences' = r.occ
        /\ pc' = IF r.ret = "panic" THEN "panicked"
                 ELSE IF r.ret = "return" /\ pc = "first_stack" THEN AssertFilter(r.f)
                 ELSE pc
    /\ reader' = Tail(reader)
    /\ hist' = HistLine(hist, folder, Head(reader), overflow_checks)
    /\ UNCHANGED <<input, buf, nstacks, jobs, runs, overflow_checks>>

\* process_single_stack reads the end of data in pre_process
FirstStackEnd ==
    /\ pc = "first_stack"
    /\ reader = <<>>
    /\ LET r == end_of_data(folder, occurrences) IN
        /\ folder' = r.f
        /\ occurrences' = r.occ
        /\ pc' = AssertFilter(r.f)
    /\ hist' = HistEnd(hist, folder)
    /\ UNCHANGED <<input, reader, buf, nstacks, jobs, runs, overflow_checks>>

\* process_single_stack reads the end of data in collapse_single_threaded,
\* which resets the state and returns
CollapseEnd ==
    /\ pc = "single"
    /\ reader = <<>>
    /\ LET r == end_of_data(folder, occurrences) IN
        /\ folder' = reset_state(r.f)
        /\ occurrences' = r.occ
    /\ pc' = "done"
    /\ hist' = HistEnd(hist, folder)
    /\ UNCHANGED <<input, reader, buf, nstacks, jobs, runs, overflow_checks>>

\* the user's options of the single-run specification
RunOptions ==
    {[DefaultOptions(1) EXCEPT !.event_filter = ef] : ef \in {None, Some(<<"c">>)}}

Init ==
    /\ \E options \in RunOptions, lines \in Inputs(Corpus, MaxLines) :
          StartCollapse(FolderFrom(options), options, lines)
    /\ overflow_checks = TRUE

Next == PreProcess \/ ProcessLine \/ FirstStackEnd \/ CollapseEnd

Spec == Init /\ [][Next]_vars

(***************************************************************************)
(* The multi-threaded path of Collapse::collapse.  It lives outside perf.rs *)
(* and is modelled from its description: the calling thread cuts the rest  *)
(* of the stream into jobs of nstacks_per_job stacks, at the lines that    *)
(* would_end_stack accepts; every job is parsed by a fresh                 *)
(* clone_and_reset_stack_context of the Folder with collapse_single_       *)
(* threaded into its own map, and the maps are summed.                     *)
(***************************************************************************)
\* the calling thread reads one more line into the job it assembles
DispatchLine ==
    /\ pc = "dispatch"
    /\ reader # <<>>
    /\ LET line == Head(reader)
           ends == would_end_stack(line)
           full == ends /\ nstacks + 1 = folder.nstacks_per_job
       IN  /\ buf' = IF full THEN <<>> ELSE Append(buf, line)
           /\ nstacks' = IF full THEN 0 ELSE IF ends THEN nstacks + 1 ELSE nstacks
           /\ jobs' = IF full THEN Append(jobs, Append(buf, line)) ELSE jobs
    /\ reader' = Tail(reader)
    /\ hist' = HistLine(hist, folder, Head(reader), overflow_checks)
    /\ UNCHANGED <<folder, occurrences, input, pc, runs, overflow_checks>>

\* the calling thread reads the end of data and sends what it has assembled
DispatchEnd ==
    /\ pc = "dispatch"
    /\ reader = <<>>
    /\ jobs' = Append(jobs, buf)
    /\ buf' = <<>>
    /\ nstacks' = 0
    /\ pc' = "join"
    /\ hist' = HistEnd(hist, folder)
    /\ UNCHANGED <<folder, occurrences, input, reader, runs, overflow_checks>>

\* a worker takes any job that was sent, parses it with a fresh clone and adds
\* its counts to the result
RunJob ==
    /\ pc \in {"dispatch", "join"}
    /\ \E i \in 1..Len(jobs) :
        \E r \in {collapse_single_threaded(clone_and_reset_stack_context(folder),
                                           EmptyBag, jobs[i], overflow_checks)} :
            /\ jobs' = SubSeq(jobs, 1, i - 1) \o SubSeq(jobs, i + 1, Len(jobs))
            /\ occurrences' = IF r.panic THEN occurrences ELSE occurrences (+) r.occ
            /\ pc' = IF r.panic THEN "panicked" ELSE pc
    /\ UNCHANGED <<folder, input, reader, buf, nstacks, hist, runs, overflow_checks>>

\* every job has been processed: the calling thread has the final result
Join ==
    /\ pc = "join"
    /\ jobs = <<>>
    /\ pc' = "done"
    /\ UNCHANGED <<folder, occurrences, input, reader, buf, nstacks, jobs, hist, runs,
                   overflow_checks>>

NextMulti == Next \/ DispatchLine \/ DispatchEnd \/ RunJob \/ Join

(***************************************************************************)
(* Several collapse calls                                                  *)
(***************************************************************************)
\* a collapse call has returned or panicked
Finished == pc \in {"done", "panicked"}

\* what the caller of a finished collapse call observes: the panic, or the
\* (stack, count) pairs that are written
Outcome ==
    [panicked |-> pc = "panicked",
     output   |-> IF pc = "panicked" THEN EmptyBag ELSE occurrences]

\* the state at the start of a further collapse call on Folder f
NextCollapse(f, options, lines) ==
    /\ folder' = f
    /\ occurrences' = EmptyBag
    /\ input' = lines
    /\ reader' = lines
    /\ pc' = "pre_process"
    /\ buf' = <<>>
    /\ nstacks' = 0
    /\ jobs' = <<>>
    /\ hist' = NewHist(options)
    /\ runs' = Append(runs, Outcome)
    /\ UNCHANGED overflow_checks

MaxJobSize == 2

\* tests::fuzz_collapse_perf: the input is collapsed by a Folder with
\* nthreads = 1 and then by a new Folder with the same options, the same
\* nstacks_per_job and more than one thread
InitFuzz ==
    /\ \E ef \in {None, Some(<<"c">>)}, n \in 1..MaxJobSize,
          lines \in Inputs({HeaderC, HeaderI, Weird, Frame1, Blank}, MaxReplayLines) :
          LET options == [DefaultOptions(1) EXCEPT !.event_filter = ef] IN
          StartCollapse([FolderFrom(options) EXCEPT !.nstacks_per_job = n], options, lines)
    /\ overflow_checks = TRUE

FuzzSecondRun ==
    /\ Finished
    /\ runs = <<>>
    /\ LET options == [hist.options EXCEPT !.nthreads = 2] IN
       NextCollapse([FolderFrom(options) EXCEPT !.nstacks_per_job = folder.nstacks_per_job],
                    options, input)

NextFuzz == NextMulti \/ FuzzSecondRun

SpecFuzz == InitFuzz /\ [][NextFuzz]_vars

\* tests::test_collapse_multi_perf: one Folder collapses one input after the
\* other; here the second input is then also collapsed by a new Folder
ReuseCorpus == {HeaderC, HeaderI, Frame1, Blank}

MaxFirstLines == 2

InitReuse ==
    /\ \E ef \in {None, Some(<<"c">>)}, lines \in Inputs(ReuseCorpus, MaxFirstLines) :
          LET options == [DefaultOptions(1) EXCEPT !.event_filter = ef] IN
          StartCollapse(FolderFrom(options), options, lines)
    /\ overflow_checks = TRUE

\* the Folder that has collapsed the first input collapses a second one
ReuseFolder ==
    /\ pc = "done"
    /\ runs = <<>>
    /\ \E lines \in Inputs(ReuseCorpus, MaxReplayLines) :
          NextCollapse(folder, hist.options, lines)

\* a new Folder with the same options collapses the second input
FreshFolder ==
    /\ Finished
    /\ Len(runs) = 1
    /\ NextCollapse(FolderFrom(hist.options), hist.options, input)

NextReuse == Next \/ ReuseFolder \/ FreshFolder

SpecReuse == InitReuse /\ [][NextReuse]_vars

(***************************************************************************)
(* One header line, over every text of a small alphabet                    *)
(***************************************************************************)
MaxHeaderLen == 5

\* the texts of at most n characters of the set `chars`
Texts(chars, n) == UNION {[1..k -> chars] : k \in 0..n}

\* the header "<text> c:", where <text> is what event_line_parts looks for the
\* process name and the ids in
InitHeader ==
    /\ \E ef \in {None, Some(<<"i">>)}, ip \in BOOLEAN, it \in BOOLEAN,
          text \in Texts({"a", " ", "1", "/"}, MaxHeaderLen) :
          LET options == [DefaultOptions(1) EXCEPT !.event_filter = ef,
                                                   !.include_pid = ip,
                                                   !.include_tid = it]
          IN  StartCollapse(FolderFrom(options), options, <<text \o <<" ", "c", ":">>>>)
    /\ overflow_checks = TRUE

SpecHeader == InitHeader /\ [][Next]_vars

(***************************************************************************)
(* One event with one frame line, over functions, modules and options      *)
(***************************************************************************)
NativeSafeHalt ==
    <<"n", "a", "t", "i", "v", "e", "_", "s", "a", "f", "e", "_", "h", "a", "l", "t">>

KernelKallsyms ==
    <<"[", "k", "e", "r", "n", "e", "l", ".", "k", "a", "l", "l", "s", "y", "m", "s",
      "]">>

PerfMap ==
    <<"/", "t", "m", "p", "/", "p", "e", "r", "f", "-", "1", "2", "3", "4", ".", "m",
      "a", "p">>

Vmlinux ==
    <<"/", "b", "/", "v", "m", "l", "i", "n", "u", "x">>

\* the frame line "<address> <function> (<module>)"
FrameLine(func, module) == <<" ", "e", " ">> \o func \o <<" ", "(">> \o module \o <<")">>

FrameFuncs == {NativeSafeHalt, <<"g", "-", ">", "h">>, Unknown}

FrameModules == {KernelKallsyms, Unknown, PerfMap, Vmlinux, <<"m">>}

\* header, frame line, and the blank line that ends the event (or the end of
\* the data in its place)
InitFrame ==
    /\ \E ak \in BOOLEAN, aj \in BOOLEAN, ia \in BOOLEAN, header \in {HeaderC, HeaderI},
          func \in FrameFuncs, module \in FrameModules, end \in {<<>>, <<Blank>>} :
          LET options == [DefaultOptions(1) EXCEPT !.annotate_kernel = ak,
                                                   !.annotate_jit = aj,
                                                   !.include_addrs = ia]
          IN  StartCollapse(FolderFrom(options), options,
                            <<header, FrameLine(func, module)>> \o end)
    /\ overflow_checks = TRUE

SpecFrame == InitFrame /\ [][Next]_vars

(***************************************************************************)
(* tidy_generic applied to a name, and again to its result                 *)
(***************************************************************************)
AnonymousNamespaceMarker ==
    <<"(", "a", "n", "o", "n", "y", "m", "o", "u", "s", " ", "n", "a", "m", "e", "s",
      "p", "a", "c", "e", ")">>

NamePieces == {<<"a">>, <<".">>, <<"(">>, <<")">>, <<";">>, AnonymousNamespaceMarker}

\* the names made of at most n pieces
Names(n) == {Flatten(ps) : ps \in Inputs(NamePieces, n)}

\* `input` holds the name, `buf` the results of the applications so far; both
\* builds (with and without overflow checks) are covered
InitTidy ==
    /\ \E name \in Names(MaxNamePieces) : input = <<name>>
    /\ folder = FolderFrom(DefaultOptions(1))
    /\ occurrences = EmptyBag
    /\ reader = <<>>
    /\ pc = "tidy"
    /\ buf = <<>>
    /\ nstacks = 0
    /\ jobs = <<>>
    /\ hist = NewHist(DefaultOptions(1))
    /\ runs = <<>>
    /\ overflow_checks \in BOOLEAN

\* func = tidy_generic(func), at most twice
TidyGeneric ==
    /\ pc = "tidy"
    /\ LET func == IF buf = <<>> THEN input[1] ELSE buf[Len(buf)]
           r    == tidy_generic(func, overflow_checks)
       IN  /\ buf' = IF r.panic THEN buf ELSE Append(buf, r.val)
           /\ pc' = IF r.panic THEN "panicked"
                    ELSE IF Len(buf) = 1 THEN "done" ELSE pc
    /\ UNCHANGED <<folder, occurrences, input, reader, nstacks, jobs, hist, runs,
                   overflow_checks>>

NextTidy == TidyGeneric

SpecTidy == InitTidy /\ [][NextTidy]_vars

(***************************************************************************)
(* Folder::is_applicable                                                   *)
(***************************************************************************)
\* a variant of is_applicable_loop that keeps last_line_was_event_line at an
\* empty line
RECURSIVE is_applicable_loop_keeps_flag(_, _)
is_applicable_loop_keeps_flag(lines, last_line_was_event_line) ==
    IF lines = <<>> THEN None
    ELSE
    LET line == Trim(Head(lines)) IN
    IF StartsWith(line, <<"#">>) \/ line = <<>>
    THEN is_applicable_loop_keeps_flag(Tail(lines), last_line_was_event_line)
    ELSE IF last_line_was_event_line THEN Some(stack_line_parts(line) # None)
    ELSE IF event_line_parts(line) = None THEN Some(FALSE)
    ELSE is_applicable_loop_keeps_flag(Tail(lines), TRUE)

\* the loop of is_applicable over the lines that read_line returns; the result
\* is None, Some(TRUE) or Some(FALSE)
RECURSIVE is_applicable_loop(_, _)
is_applicable_loop(lines, last_line_was_event_line) ==
    IF lines = <<>> THEN None
    ELSE
    LET line == Trim(Head(lines)) IN
    IF StartsWith(line, <<"#">>)
    THEN is_applicable_loop(Tail(lines), last_line_was_event_line)
    ELSE IF line = <<>> THEN is_applicable_loop(Tail(lines), FALSE)
    ELSE IF last_line_was_event_line THEN Some(stack_line_parts(line) # None)
    ELSE IF event_line_parts(line) = None THEN Some(FALSE)
    ELSE is_applicable_loop(Tail(lines), TRUE)

\* Folder::is_applicable
is_applicable(lines) == is_applicable_loop(lines, FALSE)

\* a line that parses as an event header and as a frame line
HeaderFrame == <<"a", " ", "1", " ", "(", "m", ")">>

IndentedComment == <<" ", "#">>

DetectCorpus == {HeaderC, HeaderFrame, Frame1, Weird, Blank, Comment, IndentedComment}

\* `input` holds the lines of the text given to is_applicable, `buf` its result
InitDetect ==
    /\ input \in Inputs(DetectCorpus, MaxDetectLines)
    /\ folder = FolderFrom(DefaultOptions(1))
    /\ occurrences = EmptyBag
    /\ reader = <<>>
    /\ pc = "is_applicable"
    /\ buf = <<>>
    /\ nstacks = 0
    /\ jobs = <<>>
    /\ hist = NewHist(DefaultOptions(1))
    /\ runs = <<>>
    /\ overflow_checks = TRUE

\* the call folder.is_applicable(input)
IsApplicable ==
    /\ pc = "is_applicable"
    /\ buf' = <<is_applicable(input)>>
    /\ pc' = "done"
    /\ UNCHANGED <<folder, occurrences, input, reader, nstacks, jobs, hist, runs,
                   overflow_checks>>

NextDetect == IsApplicable

SpecDetect == InitDetect /\ [][NextDetect]_vars

(***************************************************************************)
(* Construction of a Folder and its thread count                           *)
(***************************************************************************)
\* every Options value with a thread count of at most MaxThreads
AllOptions ==
    [annotate_jit : BOOLEAN, annotate_kernel : BOOLEAN, demangle : BOOLEAN,
     event_filter : {None, Some(<<"c">>)}, include_addrs : BOOLEAN,
     include_pid : BOOLEAN, include_tid : BOOLEAN, nthreads : 0..MaxThreads]

\* Folder::from(options), before any collapse call
InitThreads ==
    /\ \E options \in AllOptions :
          /\ folder = FolderFrom(options)
          /\ hist = NewHist(options)
    /\ occurrences = EmptyBag
    /\ input = <<>>
    /\ reader = <<>>
    /\ pc = "constructed"
    /\ buf = <<>>
    /\ nstacks = 0
    /\ jobs = <<>>
    /\ runs = <<>>
    /\ overflow_checks = TRUE

\* the call folder.set_nthreads(n)
SetNthreads ==
    /\ pc = "constructed"
    /\ \E n \in 0..MaxThreads : folder' = set_nthreads(folder, n)
    /\ UNCHANGED <<occurrences, input, reader, pc, buf, nstacks, jobs, hist, runs,
                   overflow_checks>>

NextThreads == SetNthreads

SpecThreads == InitThreads /\ [][NextThreads]_vars

(***************************************************************************)
(* An event of another type followed by an event of the filtered type      *)
(***************************************************************************)
\* the lines between a header and the blank line of its event
EventLines == Inputs({Frame1, Frame2, Weird}, MaxSkipLines)

\* an event of type c first when the filter is to be adopted; then an event of
\* type i and an event of type c.  The one-line input lets pre_process read
\* the end of the data.
SkipInputs(ef) ==
    {(IF ef = None THEN <<HeaderC, Blank>> ELSE <<>>)
        \o <<HeaderI>> \o skipped \o <<Blank, HeaderC>> \o own \o <<Blank>> :
            skipped \in EventLines, own \in EventLines}
    \cup {<<HeaderC>>}

InitSkip ==
    /\ \E ef \in {None, Some(<<"c">>)} :
          LET options == [DefaultOptions(1) EXCEPT !.event_filter = ef] IN
          \E lines \in SkipInputs(ef) : StartCollapse(FolderFrom(options), options, lines)
    /\ overflow_checks = TRUE

SpecSkip == InitSkip /\ [][Next]_vars

(***************************************************************************)
(* One event whose frame lines hold inlined calls                          *)
(***************************************************************************)
\* raw functions without and with the separator "->"
InlineFuncs ==
    {<<"f">>, <<"g", "-", ">", "h">>, <<"g", "-", ">", "h", "-", ">", "k">>,
     <<"g", "-", ">", "(", "h">>}

InlineLines == {FrameLine(func, module) : func \in InlineFuncs, module \in {<<"m">>, KernelKallsyms}}

\* a header, frame lines, and the blank line of the event (or the end of the
\* data in its place), in a build with and in a build without overflow checks
InitInline ==
    /\ \E ak \in BOOLEAN, header \in {HeaderC, HeaderI}, end \in {<<>>, <<Blank>>},
          frames \in Inputs(InlineLines, MaxInlineLines) :
          LET options == [DefaultOptions(1) EXCEPT !.annotate_kernel = ak] IN
          StartCollapse(FolderFrom(options), options, <<header>> \o frames \o end)
    /\ overflow_checks \in BOOLEAN

SpecInline == InitInline /\ [][Next]_vars

(***************************************************************************)
(* One event and then a line of any text, also of characters outside ASCII *)
(***************************************************************************)
BoundaryChars == {" ", "\t", "#", "a", EmSpace, NoBreakSpace, AGrave}

\* a header, possibly a frame line, and a line of at most MaxBoundaryLen
\* characters
InitBoundary ==
    /\ \E frames \in {<<>>, <<Frame1>>}, line \in Texts(BoundaryChars, MaxBoundaryLen) :
          StartCollapse(FolderFrom(DefaultOptions(1)), DefaultOptions(1),
                        <<HeaderC>> \o frames \o <<line>>)
    /\ overflow_checks = TRUE

SpecBoundary == InitBoundary /\ [][Next]_vars

(***************************************************************************)
(* Properties                                                              *)
(***************************************************************************)
\* C2: collapsing any byte sequence with a default Folder never panics: no
\* run reaches a failed assertion or index computation.
C2_NeverPanics == pc # "panicked"

\* C3: when the input ends while the parser is in an event that is not marked
\* for skipping, the pending stack is counted before the run finishes, as if a
\* blank line had been read: its count is one more than the number of events
\* that a blank line closed with that string.
C3_EndOfInputFlushes ==
    (pc = "done" /\ hist.at_eof # None)
        => Count(occurrences, hist.at_eof[1]) = Count(hist.sampled, hist.at_eof[1]) + 1

\* an input without any stack: every line is a comment or blank
NoStacks(lines) ==
    \A i \in 1..Len(lines) : StartsWith(lines[i], <<"#">>) \/ TrimEnd(lines[i]) = <<>>

\* C4: with no preset event filter and an input that holds no stacks at all,
\* the run (pre_process included) completes successfully with an empty
\* occurrence map.
C4_NoStacksEmptyOutput ==
    (hist.options.event_filter = None /\ NoStacks(input) /\ reader = <<>>
        /\ pc \notin {"pre_process", "first_stack"})
        => (pc # "panicked" /\ occurrences = EmptyBag)

\* C5: an event whose header's event type differs from the active filter
\* contributes nothing to the occurrence map: no line of it, its terminator
\* included, changes the map.
C5_FilteredEventNotCounted ==
    [][hist.phase = "excluded" => occurrences' = occurrences]_vars

\* C5 witness: the filter was adopted from the first header, an event of
\* another type was read to its terminator, and only the first is counted.
C5_Witness ==
    /\ hist.options.event_filter = None
    /\ hist.adopted
    /\ hist.nexcluded >= 1
    /\ DOMAIN occurrences = {<<"a", "_", "b">>}

\* C6: once the Folder's event filter holds a value, no later step of the run
\* changes it.
C6_FilterNeverChanges ==
    [][folder.event_filter # None => folder'.event_filter = folder.event_filter]_vars

\* C6 witness: the filter was adopted from a header and a header of another
\* event type has been processed since; the filter is still the adopted one.
C6_Witness ==
    /\ hist.adopted
    /\ hist.phase = "excluded"
    /\ folder.event_filter = Some(<<"c">>)

\* C7: after any sequence of lines, the count of every stack string equals the
\* number of sampled events (accepted header, frame lines, terminating blank
\* line) that produced that string; a blank line that closes no such event
\* adds no count.
C7_CountsAreSampledEvents ==
    \A key \in DOMAIN occurrences \cup DOMAIN hist.sampled :
        Count(occurrences, key) = Count(hist.sampled, key)

\* C9: the string counted for an event is the process identity followed by the
\* event's frames root-first (the frame lines in the reverse of the order they
\* were read, the frames of one line in their written order), each preceded
\* by ';'.
C9_StackIsRootFirst ==
    [][(hist.phase = "event" /\ hist'.phase = "idle")
        => occurrences' = insert_or_add(occurrences,
                StackString(folder.pname, Flatten(Reverse(hist.lines))), 1)]_vars

\* C9 witness: the event "a b 1/2 c:" with the frame lines f and g->h, read in
\* that order, was counted as a_b;g;h_[i];f.
C9_Witness ==
    <<"a", "_", "b", ";", "g", ";", "h", "_", "[", "i", "]", ";", "f">>
        \in DOMAIN occurrences

\* C1: the result of collapse does not depend on the thread count: the run
\* with more than one thread (every job parsed by a fresh clone, at any job
\* size) gives the same (stack, count) pairs as the run with one thread.
C1_ThreadInvariance ==
    (Finished /\ Len(runs) = 1) => Outcome = runs[1]

\* C8: no parser state survives a collapse call: a Folder that has collapsed
\* another input before gives the same result as a new Folder.
C8_NoStateAcrossRuns ==
    (Finished /\ Len(runs) = 2) => Outcome = runs[2]

\* the identity the documentation describes, from the options as the user gave them
ExpectedIdentity(options, parts) ==
    ReplaceChar(parts.comm, " ", "_")
        \o (IF options.include_tid
            THEN <<"-">> \o parts.pid \o <<"/">> \o parts.tid
            ELSE IF options.include_pid THEN <<"-">> \o parts.pid
            ELSE <<>>)

\* C10: the process identity built from an accepted header is the process name
\* with every space replaced by '_', followed by nothing, by '-<pid>'
\* (include_pid) or by '-<pid>/<tid>' (include_tid, with or without
\* include_pid).
C10_IdentityComposition ==
    hist.phase = "event" => folder.pname = ExpectedIdentity(hist.options, hist.parts[1])

\* C10 witness: include_tid alone was configured, and the header's process
\* name holds a space and its id word a pid and a tid.
C10_Witness ==
    /\ hist.phase = "event"
    /\ hist.options.include_tid /\ ~hist.options.include_pid
    /\ folder.pname = <<"a", "_", "a", "-", "?", "/", "1">>

\* the name of a piece before its annotation: module fallback, generic and Java
\* cleanup
DisplayName(f, module, func, pc_) ==
    LET tidy == tidy_generic(with_module_fallback(module, func, pc_, f.opt.include_addrs),
                             overflow_checks).val
    IN  IF f.pname = JavaName THEN tidy_java(tidy) ELSE tidy

\* the one suffix a frame gets: inlined first, then kernel, then JIT
ExpectedSuffix(options, module, inlined) ==
    LET kernel == (Head(module) = "[" \/ EndsWith(module, <<"v", "m", "l", "i", "n", "u", "x">>))
                  /\ module # Unknown
        jit    == StartsWith(module, <<"/", "t", "m", "p", "/", "p", "e", "r", "f", "-">>)
                  /\ EndsWith(module, <<".", "m", "a", "p">>)
    IN  IF inlined THEN <<"_", "[", "i", "]">>
        ELSE IF options.annotate_kernel /\ kernel THEN <<"_", "[", "k", "]">>
        ELSE IF options.annotate_jit /\ jit THEN <<"_", "[", "j", "]">>
        ELSE <<>>

\* the frame line of the event has been read by a parser that samples the event
FrameLineRead ==
    /\ pc \in {"first_stack", "single"}
    /\ hist.phase = "event"
    /\ Len(hist.lines) = 1

\* C11: every frame name carries at most one annotation suffix, chosen in the
\* order inlined '_[i]', kernel '_[k]', JIT '_[j]': '_[k]' only with
\* annotate_kernel on a kernel module other than '[unknown]', '_[j]' only with
\* annotate_jit on a module /tmp/perf-*.map; without annotate_kernel a frame of
\* [kernel.kallsyms] has no suffix.
C11_OneAnnotationByPriority ==
    FrameLineRead =>
        LET parts  == stack_line_parts(input[2])[1]
            pieces == Split(parts.rawfunc, <<"-", ">">>)
        IN  folder.stack =
                [i \in 1..Len(pieces) |->
                    DisplayName(folder, parts.module, pieces[i], parts.pc)
                        \o ExpectedSuffix(hist.options, parts.module, i > 1)]

\* a kernel frame with an inlined callee, with annotate_kernel set
C11_Witness ==
    /\ FrameLineRead
    /\ hist.options.annotate_kernel
    /\ folder.stack = <<<<"g", "_", "[", "k", "]">>, <<"h", "_", "[", "i", "]">>>>

\* the frame line read is "[unknown]" of the given module, addresses not shown
UnknownFrameRead(module) ==
    /\ FrameLineRead
    /\ ~hist.options.include_addrs
    /\ stack_line_parts(input[2])[1].rawfunc = Unknown
    /\ stack_line_parts(input[2])[1].module = module

\* C12 (as stated): for the raw function '[unknown]' of module
\* /tmp/perf-1234.map, with include_addrs = false, the display name is the bare
\* '[unknown]'.
C12_UnknownStaysBare ==
    UnknownFrameRead(PerfMap) =>
        folder.stack = <<Unknown \o ExpectedSuffix(hist.options, PerfMap, FALSE)>>

BracketedPerfMap ==
    <<"[", "p", "e", "r", "f", "-", "1", "2", "3", "4", ".", "m", "a", "p", "]">>

\* C12 (amended): for the raw function '[unknown]' of module
\* /tmp/perf-1234.map, with include_addrs = false, the display name is
\* '[perf-1234.map]', the last path segment of the module in brackets; the bare
\* '[unknown]' is kept only when the module is '[unknown]' too.
C12_UnknownTakesModuleName ==
    /\ UnknownFrameRead(PerfMap) =>
          folder.stack = <<BracketedPerfMap \o ExpectedSuffix(hist.options, PerfMap, FALSE)>>
    /\ UnknownFrameRead(Unknown) => folder.stack = <<Unknown>>

C12_Witness ==
    /\ UnknownFrameRead(PerfMap)
    /\ ~hist.options.annotate_jit
    /\ folder.stack = <<BracketedPerfMap>>

\* the name with ';' replaced, cut at its first '(' unless that '(' opens
\* "(anonymous namespace)" or follows a '.'
TruncatedAtFirstParen(name) ==
    LET func == ReplaceChar(name, ";", ":")
        at   == Find(func, <<"(">>)
    IN  IF at = None THEN func
        ELSE IF StartsWith(SliceFrom(func, at[1]), AnonymousNamespaceMarker) THEN func
        ELSE IF at[1] > 0 /\ func[at[1]] = "." THEN func
        ELSE Slice(func, 0, at[1])

\* C13: tidy_generic truncates a name at its first '(' except in two cases,
\* where the name is kept: the '(' opens the "(anonymous namespace)" marker, or
\* the character before the '(' is '.'.
C13_TruncatesAtFirstParen ==
    Len(buf) >= 1 => buf[1] = TruncatedAtFirstParen(input[1])

\* C14: tidy_generic is idempotent: applied to its own result it returns that
\* result (and does not fail on it).
C14_TidyGenericIdempotent ==
    /\ Len(buf) = 2 => buf[2] = buf[1]
    /\ pc = "panicked" => buf = <<>>

\* a name that the first application has cut, applied twice
C14_Witness ==
    /\ pc = "done"
    /\ Len(buf) = 2
    /\ Len(buf[1]) < Len(input[1])
    /\ buf[1] # <<>>

\* a line that is neither blank nor a comment
Substantive(line) == Trim(line) # <<>> /\ ~StartsWith(Trim(line), <<"#">>)

IsHeader(line) == event_line_parts(Trim(line)) # None

IsFrame(line) == stack_line_parts(Trim(line)) # None

\* the answer by the rule "first substantive line is a header, the line right
\* after it is a frame line"
FirstHeaderThenFrame(lines) ==
    LET subst == {i \in 1..Len(lines) : Substantive(lines[i])} IN
    IF subst = {} THEN None
    ELSE
    LET h == CHOOSE i \in subst : \A j \in subst : i <= j IN
    IF ~IsHeader(lines[h]) THEN Some(FALSE)
    ELSE IF h = Len(lines) THEN None
    ELSE Some(IsFrame(lines[h + 1]))

\* C15 (as stated): is_applicable skips leading comment and blank lines and
\* returns Some(false) if the first substantive line is not an event header or
\* the line right after that header is not a frame line, Some(true) if it is a
\* frame line, and None only when the input runs out before that.
C15_FirstHeaderThenFrame ==
    pc = "done" => buf[1] = FirstHeaderThenFrame(input)

\* the lines without the comment lines, trimmed
WithoutComments(lines) ==
    SelectSeq([i \in 1..Len(lines) |-> Trim(lines[i])], LAMBDA l : ~StartsWith(l, <<"#">>))

\* the answer by the rule: comment lines count nowhere; a header is expected at
\* the start and after a blank line, and a frame line right after a header
HeaderThenFrameAnywhere(lines) ==
    LET ls  == WithoutComments(lines)
        after_header(k) == k > 1 /\ ls[k - 1] # <<>>
        decides == {k \in 1..Len(ls) :
                        ls[k] # <<>> /\ (event_line_parts(ls[k]) = None \/ after_header(k))}
    IN  IF decides = {} THEN None
        ELSE
        LET k == CHOOSE i \in decides : \A j \in decides : i <= j IN
        IF after_header(k) THEN Some(stack_line_parts(ls[k]) # None) ELSE Some(FALSE)

\* C15 (amended): is_applicable ignores comment lines everywhere and blank
\* lines before a header; a blank line after a header makes it expect a header
\* again.  It returns Some(false) if a non-blank line where a header is expected
\* is not an event header, or if the first non-comment line after a header is
\* non-blank and not a frame line; Some(true) if that line is a frame line;
\* None when the input runs out before either happens.
C15_HeaderThenFrameAnywhere ==
    pc = "done" => buf[1] = HeaderThenFrameAnywhere(input)

\* a header, a blank line, and then a header with its frame line
C15_Witness ==
    /\ pc = "done"
    /\ input = <<HeaderC, Blank, HeaderC, Frame1>>
    /\ buf = <<Some(TRUE)>>

\* C16: the effective thread count of a Folder is never 0: nthreads() >= 1 in
\* every state reached through Folder::from(options) and set_nthreads.
C16_ThreadCountAtLeastOne == nthreads(folder) >= 1

\* a step that takes a line from the reader, or finds the reader empty and
\* leaves the loop
ConsumesOrEnds ==
    \/ Len(reader') < Len(reader)
    \/ reader = <<>> /\ pc' # pc

\* what is left to do: the lines to read, and the stages of the call
Remaining ==
    Len(reader) + CASE pc = "pre_process" -> 3
                    [] pc = "first_stack" -> 2
                    [] pc = "single"      -> 1
                    [] OTHER              -> 0

\* C17: on every finite input the collapse loop terminates: every iteration of
\* process_single_stack consumes a line or reports the end of data, and the
\* collapse call ends after finitely many of them (every step lowers what
\* remains, and a step is possible until the call has ended).
C17_CollapseTerminates ==
    /\ [][(pc \in {"first_stack", "single"}) => ConsumesOrEnds]_vars
    /\ [][Remaining' < Remaining]_vars
    /\ [](~Finished => pc \in {"pre_process", "first_stack", "single"})

\* a call that has read three or more lines, comment lines among them, and returned
C17_Witness ==
    /\ pc = "done"
    /\ reader = <<>>
    /\ Len(input) >= 3
    /\ \E i \in 1..Len(input) : input[i] = Comment

\* pre_process has returned Ok in the current collapse call
PreProcessReturnedOk == pc \in {"single", "dispatch", "join", "done"}

\* the Folder a worker parses a job with, and the Folder it ends job i with
WorkerStart == clone_and_reset_stack_context(folder)

WorkerEnd(i) ==
    collapse_single_threaded(WorkerStart, EmptyBag, jobs[i], overflow_checks).f

\* C18: whenever pre_process has returned Ok the Folder's event filter is set;
\* so every worker clone made afterwards starts with that same filter, and no
\* worker takes a filter from the headers of its own job.
C18_WorkersShareResolvedFilter ==
    /\ PreProcessReturnedOk => folder.event_filter # None
    /\ pc \in {"dispatch", "join"} =>
          \A i \in 1..Len(jobs) :
              /\ WorkerStart.event_filter = folder.event_filter
              /\ WorkerStart.event_filter # None
              /\ WorkerEnd(i).event_filter = folder.event_filter

\* the filter i was adopted in pre_process, and a job holds a header of type c
C18_Witness ==
    /\ pc = "join"
    /\ hist.options.event_filter = None
    /\ folder.event_filter = Some(<<"i">>)
    /\ \E i \in 1..Len(jobs) : \E k \in 1..Len(jobs[i]) : jobs[i][k] = HeaderC

\* the clone of the Folder has a fresh stack-building state and the Folder's
\* filter, options and job size
CloneIsFresh ==
    LET clone == clone_and_reset_stack_context(folder) IN
    /\ clone.in_event = FALSE
    /\ clone.skip_stack = FALSE
    /\ clone.stack = <<>>
    /\ clone.pname = <<>>
    /\ clone.event_filter = folder.event_filter
    /\ clone.opt = folder.opt
    /\ clone.nstacks_per_job = folder.nstacks_per_job

\* a worker has taken a job (and made its clone) in this step
WorkerStep == pc \in {"dispatch", "join"} /\ Len(jobs') < Len(jobs)

\* C19: clone_and_reset_stack_context returns a parser whose stack-building
\* state is fresh (not in an event, not skipping, no frames, no process name)
\* and whose event filter, options and job size are those of the original; the
\* original Folder is left as it was.
C19_CloneFreshOriginalKept ==
    /\ [](pc \in {"dispatch", "join"} => CloneIsFresh)
    /\ [][WorkerStep => folder' = folder]_vars

\* clones are made of a Folder that pre_process left in the middle of an event
C19_Witness ==
    /\ pc = "join"
    /\ jobs # <<>>
    /\ folder.in_event
    /\ folder.stack # <<>>
    /\ folder.pname # <<>>

\* the parser is Idle and the next line it reads is neither a comment nor
\* empty and does not parse as an event header
MalformedHeaderNext ==
    /\ pc \in {"first_stack", "single"}
    /\ reader # <<>>
    /\ ~folder.in_event
    /\ ~StartsWith(Head(reader), <<"#">>)
    /\ TrimEnd(Head(reader)) # <<>>
    /\ event_line_parts(TrimEnd(Head(reader))) = None

\* the step keeps the parser Idle and keeps frames, skip flag, filter and counts
MalformedHeaderTolerated ==
    /\ folder'.in_event = FALSE
    /\ folder'.stack = folder.stack
    /\ folder'.skip_stack = folder.skip_stack
    /\ folder'.event_filter = folder.event_filter
    /\ occurrences' = occurrences
    /\ pc' = pc
    /\ reader' = Tail(reader)

\* C20: a line that fails to parse as an event header while the parser is Idle
\* leaves the parser Idle and changes neither the frame list, the skip flag,
\* the event filter nor the occurrence map; parsing goes on with the next line.
C20_MalformedHeaderTolerated ==
    [][MalformedHeaderNext => MalformedHeaderTolerated]_vars

\* a malformed header was just read after an event had been counted
C20_Witness ==
    /\ pc = "single"
    /\ Len(reader) < Len(input)
    /\ input[Len(input) - Len(reader)] = Weird
    /\ hist.phase = "idle"
    /\ ~folder.in_event
    /\ folder.event_filter # None
    /\ occurrences # EmptyBag

\* the parser is InEvent and the next line it reads is neither a comment nor
\* empty and does not parse as a frame line
MalformedFrameNext ==
    /\ pc \in {"first_stack", "single"}
    /\ reader # <<>>
    /\ folder.in_event
    /\ ~StartsWith(Head(reader), <<"#">>)
    /\ TrimEnd(Head(reader)) # <<>>
    /\ stack_line_parts(TrimEnd(Head(reader))) = None

\* the step changes neither frames, identity, skip flag nor counts, and the
\* parser stays InEvent
MalformedFrameIgnored ==
    /\ folder'.in_event
    /\ folder'.stack = folder.stack
    /\ folder'.pname = folder.pname
    /\ folder'.skip_stack = folder.skip_stack
    /\ occurrences' = occurrences
    /\ pc' = pc
    /\ reader' = Tail(reader)

\* the input is one event: a header, lines that are not empty, a blank line
OneEventInput ==
    /\ Len(input) >= 3
    /\ event_line_parts(TrimEnd(input[1])) # None
    /\ input[Len(input)] = Blank
    /\ \A i \in 2..(Len(input) - 1) : TrimEnd(input[i]) # <<>>

\* the frames of a line of the event: none for a comment and for a line that
\* is not a frame line
FramesOfLine(f, line) ==
    IF StartsWith(line, <<"#">>) \/ stack_line_parts(TrimEnd(line)) = None THEN <<>>
    ELSE line_funcs([f EXCEPT !.cache_line = <<>>], TrimEnd(line), overflow_checks).f.cache_line

\* the frames of the well-formed frame lines of the one event, root first
WellFormedFrames ==
    Flatten(Reverse([i \in 1..(Len(input) - 2) |-> FramesOfLine(folder, input[i + 1])]))

\* C21: a line that fails to parse as a frame line while the parser is InEvent
\* is ignored: frame list, process identity, skip flag and occurrence map stay
\* as they are and the parser stays InEvent; the frames of the same event that
\* do parse are counted when the event ends.
C21_MalformedFrameIgnored ==
    /\ [][MalformedFrameNext => MalformedFrameIgnored]_vars
    /\ []((pc = "done" /\ OneEventInput /\ hist.nexcluded = 0) =>
            occurrences = (StackString(folder.pname, WellFormedFrames) :> 1))

\* the event "a b 1/2 c:" with the frame line f and then a line that is not a
\* frame line was counted as a_b;f
C21_Witness ==
    /\ pc = "done"
    /\ input = <<HeaderC, Frame1, Weird, Blank>>
    /\ occurrences = (<<"a", "_", "b", ";", "f">> :> 1)

\* a line of an event of another type than the filter is read
SkippedLineRead == hist.phase = "excluded" /\ hist'.phase = "excluded"

\* the blank line of an event of another type than the filter is read
SkippedEventEnds == hist.phase = "excluded" /\ hist'.phase = "idle"

\* the lines of the last event of the input, which is of the filtered type
OwnLines ==
    LET h == CHOOSE i \in 1..Len(input) :
                 input[i] = HeaderC /\ \A j \in (i + 1)..Len(input) : input[j] # HeaderC
    IN  SubSeq(input, h + 1, Len(input) - 1)

\* the counts of the whole input: the adopting event, if any, and the last event
\* with the frames of its own lines
OwnFramesCounted ==
    LET own == Flatten(Reverse([i \in 1..Len(OwnLines) |-> FramesOfLine(folder, OwnLines[i])]))
        first == IF hist.options.event_filter = None THEN (<<"a", "_", "b">> :> 1)
                 ELSE EmptyBag
    IN  occurrences = first (+) (StackString(<<"a", "_", "b">>, own) :> 1)

\* C22: an event marked for skipping does not leak into the next one: its
\* lines are read as frame lines and nothing is accumulated, its blank line
\* leaves the occurrence map as it is and returns the parser to Idle with the
\* skip flag cleared and no frames, and the next event of the filtered type is
\* counted with exactly its own frames.
C22_SkippedEventDoesNotLeak ==
    /\ [][SkippedLineRead =>
            /\ folder'.in_event /\ folder'.skip_stack
            /\ folder'.stack = <<>> /\ occurrences' = occurrences]_vars
    /\ [][SkippedEventEnds =>
            /\ ~folder'.in_event /\ ~folder'.skip_stack
            /\ folder'.stack = <<>> /\ occurrences' = occurrences]_vars
    /\ []((pc = "done" /\ Len(input) > 1) => OwnFramesCounted)

\* a skipped event with the frames g->h, then an event with the frame f
C22_Witness ==
    /\ pc = "done"
    /\ hist.nexcluded = 1
    /\ input = <<HeaderI, Frame2, Blank, HeaderC, Frame1, Blank>>
    /\ occurrences = (<<"a", "_", "b", ";", "f">> :> 1)

\* the frames of one frame line: one per piece of the raw function, in order,
\* the first without and every later one with the inlined suffix
PiecesOfLine(line) ==
    LET parts  == stack_line_parts(TrimEnd(line))[1]
        pieces == Split(parts.rawfunc, <<"-", ">">>)
    IN  [j \in 1..Len(pieces) |->
            DisplayName(folder, parts.module, pieces[j], parts.pc)
                \o ExpectedSuffix(hist.options, parts.module, j > 1)]

\* the number of frame lines of the event that have been read
FrameLinesRead == Len(input) - Len(reader) - 1

\* the event is being read: at least one frame line, and not yet its blank line
ReadingFrames ==
    /\ pc \in {"first_stack", "single", "panicked"}
    /\ FrameLinesRead >= 1
    /\ input[FrameLinesRead + 1] # Blank

\* C23: a raw function with the separator '->' gives one frame per piece, in
\* order; the first piece never has the inlined suffix and every later piece
\* of the line ends in '_[i]'; the pieces of the next frame line start again
\* without the inlined mark.
C23_InlinedPiecesMarked ==
    ReadingFrames =>
        folder.stack =
            Flatten(Reverse([i \in 1..FrameLinesRead |-> PiecesOfLine(input[i + 1])]))

\* the parser reads a line that would_end_stack classifies as the end of a stack
BoundaryLineNext ==
    /\ pc \in {"first_stack", "single"}
    /\ reader # <<>>
    /\ would_end_stack(Head(reader))

\* after_event has run on the parser's state, and process_single_stack has
\* returned with the parser Idle
StackEnded ==
    /\ occurrences' = insert_or_add(occurrences, JoinStack(folder.pname, folder.stack), 1)
    /\ ~folder'.in_event
    /\ folder'.stack = <<>>
    /\ pc' = "single"
    /\ reader' = Tail(reader)

\* C24: every line that would_end_stack classifies as ending a stack is a line
\* on which process_single_stack runs after_event and returns with the parser
\* Idle, so a job boundary chosen with would_end_stack is never inside a stack
\* that the parser is still building.
C24_BoundaryEndsStack ==
    [][BoundaryLineNext => StackEnded]_vars

\* a line of a space and a tab has ended the event a_b;f
C24_Witness ==
    /\ pc = "single"
    /\ input = <<HeaderC, Frame1, <<" ", "\t">>>>
    /\ reader = <<>>
    /\ occurrences = (<<"a", "_", "b", ";", "f">> :> 1)

====
